---- MODULE Spec2Model ----
(***************************************************************************)
(* Model of the SCB MCP server's tool layer (SCBMCPServer.callTool and its *)
(* handlers) together with the collaborators it calls: the rate-limited    *)
(* API client, the upstream statistics API and the region reference store. *)
(*                                                                         *)
(* Strings on which the code performs string operations (toLowerCase,      *)
(* startsWith, includes, property-key ordering) are sequences of           *)
(* one-character strings, so that those operations are computed, not       *)
(* assumed.  Identifiers that are only compared for equality (tool names,  *)
(* table ids, error types) are plain strings.                              *)
(***************************************************************************)
EXTENDS Integers, Sequences, FiniteSets, TLC

\* usage: the usage window of the API client; now: the clock; last: the call
\* being answered; attempts: history of the outbound attempts (see Attempted);
\* overlap: the requests under way at the same time (SpecOverlap)
VARIABLES usage, now, last, attempts, overlap

vars == <<usage, now, last, attempts, overlap>>

(***************************************************************************)
(* Bounds of the model.                                                    *)
(***************************************************************************)
MaxTokens == 4        \* longest token list of a dimension (SpecSel)
MaxTime == 12         \* the clock stops advancing here
MaxRequests == 3      \* no outbound attempt once requestCount reaches this
SmallQuota == 2       \* a quota the upstream may announce (SpecUsage)
MaxOverlap == 3       \* requests under way at the same time (SpecOverlap)
MaxBurst == 30        \* no outbound attempt once requestCount reaches this (SpecBurst)

(***************************************************************************)
(* Character strings.                                                      *)
(***************************************************************************)
\* an argument that was not supplied (undefined): a string, a table id
Absent == <<"<absent>">>
AbsentId == "<absent>"

UpperChars == <<"A","B","C","D","E","F","G","H","I","J","K","L","M","N","O",
                "P","Q","R","S","T","U","V","W","X","Y","Z","Å","Ä","Ö","É","Ü">>
LowerChars == <<"a","b","c","d","e","f","g","h","i","j","k","l","m","n","o",
                "p","q","r","s","t","u","v","w","x","y","z","å","ä","ö","é","ü">>

\* String.prototype.toLowerCase, one character
LowerChar(c) ==
  IF \E i \in 1..Len(UpperChars) : UpperChars[i] = c
  THEN LowerChars[CHOOSE i \in 1..Len(UpperChars) : UpperChars[i] = c]
  ELSE c

\* String.prototype.toLowerCase
toLowerCase(s) == [i \in 1..Len(s) |-> LowerChar(s[i])]

\* String.prototype.startsWith
startsWith(s, p) == Len(s) >= Len(p) /\ SubSeq(s, 1, Len(p)) = p

\* String.prototype.includes
includes(s, t) == \E i \in 1..(Len(s) - Len(t) + 1) : SubSeq(s, i, i + Len(t) - 1) = t

\* Array.prototype.slice(0, n)
slice(xs, n) == SubSeq(xs, 1, IF Len(xs) < n THEN Len(xs) ELSE n)

Digits == <<"0","1","2","3","4","5","6","7","8","9">>
IsDigit(c) == \E i \in 1..10 : Digits[i] = c
DigitVal(c) == (CHOOSE i \in 1..10 : Digits[i] = c) - 1

RECURSIVE NumVal(_)
\* the number a string of digits denotes
NumVal(s) == IF s = <<>> THEN 0 ELSE 10 * NumVal(SubSeq(s, 1, Len(s) - 1)) + DigitVal(s[Len(s)])

(***************************************************************************)
(* Language validation: validateLanguage.                                  *)
(***************************************************************************)
SUPPORTED_LANGUAGES == << <<"s","v">>, <<"e","n">> >>
DEFAULT_LANGUAGE == <<"s","v">>

\* JavaScript falsiness of a string-or-undefined argument: !x
Falsy(x) == x = Absent \/ x = <<>>

\* warning: whether the result carries the "Unsupported language" warning
validateLanguage(language) ==
  IF Falsy(language)
  THEN [valid |-> TRUE, language |-> DEFAULT_LANGUAGE, warning |-> FALSE]
  ELSE IF \E i \in 1..Len(SUPPORTED_LANGUAGES) : SUPPORTED_LANGUAGES[i] = toLowerCase(language)
       THEN [valid |-> TRUE, language |-> toLowerCase(language), warning |-> FALSE]
       ELSE [valid |-> FALSE, language |-> DEFAULT_LANGUAGE, warning |-> TRUE]

(***************************************************************************)
(* Selections.  A selection is NoSelection (the argument is undefined) or   *)
(* a sequence of entries [key, values] in property order, values a         *)
(* sequence of tokens.                                                     *)
(***************************************************************************)
NoSelection == << [key |-> Absent, values |-> <<>>] >>

Star == <<"*">>
TopPrefix == <<"T","O","P","(">>
BottomPrefix == <<"B","O","T","T","O","M","(">>
Top(d) == TopPrefix \o <<d, ")">>
Bottom(d) == BottomPrefix \o <<d, ")">>
TOP3 == Top("3")

\* the test of handlePreviewData on one token
IsSpecialToken(v) == v = Star \/ startsWith(v, TopPrefix) \/ startsWith(v, BottomPrefix)

\* a variant of PreviewValues that forwards '*' as it is
PreviewValuesKeepStar(values) ==
  IF (\E i \in 1..Len(values) : IsSpecialToken(values[i])) THEN values ELSE slice(values, 3)

\* the body of the loop of handlePreviewData: one dimension's preview values
PreviewValues(values) ==
  IF (\E i \in 1..Len(values) : IsSpecialToken(values[i]))
  THEN [i \in 1..Len(values) |-> IF values[i] = Star THEN TOP3 ELSE values[i]]
  ELSE slice(values, 3)

\* a variant of previewClamp that previews the latest periods when no selection is given
previewClampDefaultTop(selection) ==
  IF selection = NoSelection
  THEN << [key |-> <<"T","i","d">>, values |-> <<TOP3>>] >>
  ELSE [i \in 1..Len(selection) |->
          [key |-> selection[i].key, values |-> PreviewValues(selection[i].values)]]

\* the preview selection handlePreviewData builds from the caller's selection
previewClamp(selection) ==
  IF selection = NoSelection
  THEN NoSelection
  ELSE [i \in 1..Len(selection) |->
          [key |-> selection[i].key, values |-> PreviewValues(selection[i].values)]]

(***************************************************************************)
(* Property-key order of a JavaScript object: Object.keys lists the keys   *)
(* that are array indices ("2024", not "0180") in ascending numeric order, *)
(* then the other keys in insertion order.  An object is modelled by the   *)
(* sequence of its keys in insertion (wire) order.                         *)
(***************************************************************************)
\* a < b for strings of digits without leading zeros (numeric order)
NumLess(a, b) ==
  \/ Len(a) < Len(b)
  \/ /\ Len(a) = Len(b)
     /\ \E i \in 1..Len(a) :
          /\ DigitVal(a[i]) < DigitVal(b[i])
          /\ \A j \in 1..(i - 1) : a[j] = b[j]

\* an array index: the canonical decimal form of an integer below 2^32 - 1
IsArrayIndex(k) ==
  /\ Len(k) >= 1
  /\ \A i \in 1..Len(k) : IsDigit(k[i])
  /\ (Len(k) = 1 \/ k[1] # "0")
  /\ NumLess(k, <<"4","2","9","4","9","6","7","2","9","5">>)

RECURSIVE SortByNumVal(_)
\* ascending numeric order of a sequence of distinct array-index keys
SortByNumVal(keys) ==
  IF keys = <<>> THEN <<>>
  ELSE LET m == CHOOSE i \in 1..Len(keys) : \A j \in 1..Len(keys) : ~NumLess(keys[j], keys[i])
           rest == [i \in 1..(Len(keys) - 1) |-> IF i < m THEN keys[i] ELSE keys[i + 1]]
       IN  <<keys[m]>> \o SortByNumVal(rest)

\* Object.keys(obj) for the object whose keys were inserted in the order `keys`
ObjectKeys(keys) ==
  LET IsIdx(k) == IsArrayIndex(k)
      NotIdx(k) == ~IsArrayIndex(k)
  IN  SortByNumVal(SelectSeq(keys, IsIdx)) \o SelectSeq(keys, NotIdx)

(***************************************************************************)
(* The upstream API: tables, their metadata and the data it returns.       *)
(***************************************************************************)
DimRegion == <<"R","e","g","i","o","n">>
DimTid == <<"T","i","d">>
DimKon == <<"K","o","n">>

Year(d) == <<"2","0","2",d>>
Month(d) == <<"2","0","2","4","M","0",d>>

Years == <<Year("0"), Year("1"), Year("2"), Year("3"), Year("4"), Year("5")>>
Months == <<Month("1"), Month("2"), Month("3"), Month("4"), Month("5"), Month("6")>>

Code0180 == <<"0","1","8","0">>
Code1480 == <<"1","4","8","0">>
NameStockholm == <<"S","t","o","c","k","h","o","l","m">>
NameGoteborg == <<"G","ö","t","e","b","o","r","g">>

\* TAB1: yearly table with a Region dimension; TAB2: monthly table without one
ValidTables == {"TAB1", "TAB2"}

Metadata(tableId) ==
  IF tableId = "TAB1"
  THEN [label |-> "TAB1",
        dimension |-> << [code |-> DimRegion, label |-> <<"r","e","g","i","o","n">>,
                          values |-> <<Code0180, Code1480>>,
                          labels |-> <<NameStockholm, NameGoteborg>>],
                         [code |-> DimTid, label |-> <<"å","r">>,
                          values |-> Years, labels |-> Years] >>]
  ELSE [label |-> "TAB2",
        dimension |-> << [code |-> DimKon, label |-> <<"k","ö","n">>,
                          values |-> << <<"1">>, <<"2">> >>,
                          labels |-> << <<"m","ä","n">>, <<"k","v","i","n","n","o","r">> >>],
                         [code |-> DimTid, label |-> <<"m","å","n","a","d">>,
                          values |-> Months, labels |-> Months] >>]

\* a failed request: its class, its HTTP status (0: no response) and the
\* type of the problem body the upstream sent ("" when it sent none)
NoFailure == [class |-> "none", status |-> 0, body |-> ""]
NetworkFailure == [class |-> "network", status |-> 0, body |-> ""]
BadRequest == [class |-> "client", status |-> 400, body |-> "Parameter error"]
NotFound == [class |-> "client", status |-> 404, body |-> "Not found"]
RateLimited == [class |-> "client", status |-> 429, body |-> "Too many requests"]
ServerFault == [class |-> "server", status |-> 500, body |-> ""]
DependencyFailure == [class |-> "dependency", status |-> 424, body |-> ""]

\* failures that can hit any request, whatever it asks for
TransientFailures == {NetworkFailure, RateLimited, ServerFault, DependencyFailure}

\* what the upstream does with one request: fail, or answer (codes in
\* descending order when desc, in ascending order otherwise)
Oracles ==
  {[fail |-> f, desc |-> FALSE] : f \in TransientFailures}
    \cup {[fail |-> NoFailure, desc |-> b] : b \in BOOLEAN}

\* TOP(n) / BOTTOM(n) with n a positive integer
IsBounded(t, prefix) ==
  /\ startsWith(t, prefix)
  /\ Len(t) >= Len(prefix) + 2
  /\ t[Len(t)] = ")"
  /\ \A i \in (Len(prefix) + 1)..(Len(t) - 1) : IsDigit(t[i])
  /\ NumVal(SubSeq(t, Len(prefix) + 1, Len(t) - 1)) > 0

BoundOf(t, prefix) == NumVal(SubSeq(t, Len(prefix) + 1, Len(t) - 1))

IsTop(t) == IsBounded(t, TopPrefix)
IsBottom(t) == IsBounded(t, BottomPrefix)

Min(a, b) == IF a < b THEN a ELSE b

\* positions (in the dimension's natural order, oldest first) a token selects
TokenPicks(values, t) ==
  IF t = Star THEN 1..Len(values)
  ELSE IF IsTop(t) THEN (Len(values) - Min(BoundOf(t, TopPrefix), Len(values)) + 1)..Len(values)
  ELSE IF IsBottom(t) THEN 1..Min(BoundOf(t, BottomPrefix), Len(values))
  ELSE {i \in 1..Len(values) : values[i] = t}

HasKey(selection, key) ==
  selection # NoSelection /\ \E i \in 1..Len(selection) : selection[i].key = key

ValuesOf(selection, key) ==
  selection[CHOOSE i \in 1..Len(selection) : selection[i].key = key].values

\* the upstream accepts the selection for this table
SelectionAccepted(meta, selection) ==
  selection = NoSelection \/
  \A i \in 1..Len(selection) :
    /\ \E d \in 1..Len(meta.dimension) : meta.dimension[d].code = selection[i].key
    /\ LET dim == meta.dimension[CHOOSE d \in 1..Len(meta.dimension) :
                                   meta.dimension[d].code = selection[i].key]
       IN  \A j \in 1..Len(selection[i].values) :
             TokenPicks(dim.values, selection[i].values[j]) # {}

\* positions of a dimension the upstream returns: its own default (latest
\* period, all categories) when the selection does not name the dimension
PickedPositions(dim, selection) ==
  IF HasKey(selection, dim.code) /\ ValuesOf(selection, dim.code) # <<>>
  THEN UNION {TokenPicks(dim.values, ValuesOf(selection, dim.code)[j]) :
                j \in 1..Len(ValuesOf(selection, dim.code))}
  ELSE IF dim.code = DimTid THEN {Len(dim.values)} ELSE 1..Len(dim.values)

RECURSIVE Ascending(_)
\* the elements of a set of numbers as an ascending sequence
Ascending(S) ==
  IF S = {} THEN <<>>
  ELSE LET m == CHOOSE x \in S : \A y \in S : x <= y IN <<m>> \o Ascending(S \ {m})

Reverse(xs) == [i \in 1..Len(xs) |-> xs[Len(xs) + 1 - i]]

\* a dimension whose whole selection is one TOP(n) comes most-recent-first
MostRecentFirst(dim, selection) ==
  /\ HasKey(selection, dim.code)
  /\ Len(ValuesOf(selection, dim.code)) = 1
  /\ IsTop(ValuesOf(selection, dim.code)[1])

\* category.index of one returned dimension: its codes in wire order
ReturnedIndex(dim, selection, desc) ==
  LET pos == Ascending(PickedPositions(dim, selection))
      ord == IF desc \/ MostRecentFirst(dim, selection) THEN Reverse(pos) ELSE pos
  IN  [i \in 1..Len(ord) |-> dim.values[ord[i]]]

\* GET /tables/{id}/metadata
UpstreamMetadata(tableId, up) ==
  IF up.fail # NoFailure THEN [ok |-> FALSE, failure |-> up.fail]
  ELSE IF tableId \notin ValidTables THEN [ok |-> FALSE, failure |-> NotFound]
  ELSE [ok |-> TRUE, failure |-> NoFailure, metadata |-> Metadata(tableId)]

RECURSIVE Product(_)
\* the product of the sizes of the dimensions
Product(size) == IF size = <<>> THEN 1 ELSE size[1] * Product(Tail(size))

\* the value array the upstream sends for dimensions of these sizes: one cell
\* per position (the cell at position i holds i), in row-major order; an
\* upstream that breaks its contract sends one cell less (shape "short") or
\* one more ("long")
ValueArray(size, up) ==
  LET cells == [i \in 1..Product(size) |-> i]
      shape == IF "shape" \in DOMAIN up THEN up.shape ELSE "ok"
  IN  IF shape = "short" THEN SubSeq(cells, 1, Len(cells) - 1)
      ELSE IF shape = "long" THEN Append(cells, 0)
      ELSE cells

\* the size the payload declares for each of its dimensions
SizeOf(dimension) == [d \in 1..Len(dimension) |-> Len(dimension[d].index)]

\* the payload (json-stat2) for these dimensions
Payload(label, dimension, up) ==
  [label |-> label, dimension |-> dimension, size |-> SizeOf(dimension),
   value |-> ValueArray(SizeOf(dimension), up)]

\* POST /tables/{id}/data
UpstreamData(tableId, selection, up) ==
  IF up.fail # NoFailure THEN [ok |-> FALSE, failure |-> up.fail]
  ELSE IF tableId \notin ValidTables THEN [ok |-> FALSE, failure |-> NotFound]
  ELSE IF ~SelectionAccepted(Metadata(tableId), selection)
       THEN [ok |-> FALSE, failure |-> BadRequest]
  ELSE LET meta == Metadata(tableId)
       IN  [ok |-> TRUE, failure |-> NoFailure,
            data |-> Payload(meta.label,
                             [d \in 1..Len(meta.dimension) |->
                                [name |-> meta.dimension[d].code,
                                 index |-> ReturnedIndex(meta.dimension[d], selection, up.desc)]],
                             up)]

\* the failure of decoding a payload whose shape breaks the declared sizes
DecodeFailure == [class |-> "decode", status |-> 0, body |-> ""]

\* apiClient.transformToStructuredData: one record per position of the value
\* array, its coordinate decoded against size in row-major order (outermost
\* dimension first); a value array whose length is not the product of size
\* is a decode error
transformToStructuredData(data) ==
  LET n == Len(data.size)
      Stride(d) == Product(SubSeq(data.size, d + 1, n))
      Coordinate(i, d) == ((i - 1) \div Stride(d)) % data.size[d]
  IN  IF Len(data.value) # Product(data.size)
      THEN [ok |-> FALSE, failure |-> DecodeFailure]
      ELSE [ok |-> TRUE, failure |-> NoFailure,
            records |-> [i \in 1..Len(data.value) |->
                           [codes |-> [d \in 1..n |-> data.dimension[d].index[Coordinate(i, d) + 1]],
                            value |-> data.value[i]]],
            total_records |-> Len(data.value)]

(***************************************************************************)
(* The region reference store (regions.ts): an excerpt of ALL_REGIONS in   *)
(* declaration order (country, counties, municipalities) and its lookup.   *)
(***************************************************************************)
ALL_REGIONS ==
  << [code |-> <<"0","0">>, name |-> <<"R","i","k","e","t">>, type |-> "country", countyCode |-> Absent],
     [code |-> <<"0","1">>, name |-> <<"S","t","o","c","k","h","o","l","m","s"," ","l","ä","n">>, type |-> "county", countyCode |-> Absent],
     [code |-> <<"1","4">>, name |-> <<"V","ä","s","t","r","a"," ","G","ö","t","a","l","a","n","d","s"," ","l","ä","n">>, type |-> "county", countyCode |-> Absent],
     [code |-> Code0180, name |-> NameStockholm, type |-> "municipality", countyCode |-> <<"0","1">>],
     [code |-> Code1480, name |-> NameGoteborg, type |-> "municipality", countyCode |-> <<"1","4">>] >>

\* å/ä -> a, ö -> o, é -> e, ü -> u
FoldChar(c) ==
  IF c \in {"å", "ä"} THEN "a"
  ELSE IF c = "ö" THEN "o"
  ELSE IF c = "é" THEN "e"
  ELSE IF c = "ü" THEN "u"
  ELSE c

RECURSIVE trim(_)
\* String.prototype.trim
trim(s) ==
  IF s # <<>> /\ s[1] = " " THEN trim(SubSeq(s, 2, Len(s)))
  ELSE IF s # <<>> /\ s[Len(s)] = " " THEN trim(SubSeq(s, 1, Len(s) - 1))
  ELSE s

\* lowercase, fold diacritics, trim
normalizeForSearch(s) == trim([i \in 1..Len(s) |-> FoldChar(LowerChar(s[i]))])

\* whether a region matches a query
RegionMatches(query, r) ==
  LET q == normalizeForSearch(query)
      n == normalizeForSearch(r.name)
  IN  \/ n = q
      \/ toLowerCase(r.code) = q
      \/ includes(n, q)
      \/ includes(q, n)
      \/ includes(r.code, q)

\* the regions matching a query, in declaration order
searchRegions(query) ==
  LET M(r) == RegionMatches(query, r) IN SelectSeq(ALL_REGIONS, M)

(***************************************************************************)
(* The matcher of the server module: normalizeSwedish, fuzzyMatchRegion.   *)
(***************************************************************************)
\* a variant of normalizeSwedish that keeps the diacritics
normalizeSwedishNoFold(str) == trim(toLowerCase(str))

\* str.toLowerCase().replace(å, ä -> a; ö -> o; é -> e; ü -> u).trim()
normalizeSwedish(str) ==
  LET lower == toLowerCase(str)
  IN  trim([i \in 1..Len(lower) |-> FoldChar(lower[i])])

fuzzyMatchRegion(query, regionName, regionCode) ==
  LET normalizedQuery == normalizeSwedish(query)
      normalizedName == normalizeSwedish(regionName)
      normalizedCode == toLowerCase(regionCode)
  IN  \/ normalizedName = normalizedQuery \/ normalizedCode = normalizedQuery
      \/ includes(normalizedName, normalizedQuery) \/ includes(normalizedQuery, normalizedName)
      \/ includes(normalizedCode, normalizedQuery)

(***************************************************************************)
(* The rate-limited API client (api-client.ts): the usage window.          *)
(***************************************************************************)
TIME_WINDOW == 10
MAX_CALLS == 30

NoRateLimitInfo == [maxCalls |-> 0, timeWindow |-> 0]

InitialUsage == [requestCount |-> 0, windowStart |-> 0, rateLimitInfo |-> NoRateLimitInfo]

\* a variant of RecordAttempt that stops counting at the announced quota
RecordAttemptCapped(u, t) ==
  LET w == IF t - u.windowStart > TIME_WINDOW
           THEN [u EXCEPT !.requestCount = 0, !.windowStart = t]
           ELSE u
  IN  IF w.rateLimitInfo # NoRateLimitInfo /\ w.requestCount >= w.rateLimitInfo.maxCalls
      THEN w
      ELSE [w EXCEPT !.requestCount = @ + 1]

\* a variant of RecordAttempt that does not count the attempt that resets the window
RecordAttemptResetOnly(u, t) ==
  IF t - u.windowStart > TIME_WINDOW
  THEN [u EXCEPT !.requestCount = 0, !.windowStart = t]
  ELSE [u EXCEPT !.requestCount = @ + 1]

\* before dispatch: reset the window when the time has advanced past it
ResetIfElapsed(u, t) ==
  IF t - u.windowStart > TIME_WINDOW
  THEN [u EXCEPT !.requestCount = 0, !.windowStart = t]
  ELSE u

\* a variant of Increment that writes back the count read at dispatch, plus one
IncrementFromRead(u, seen) == [u EXCEPT !.requestCount = seen + 1]

\* counting one attempt, whatever count the request read at dispatch (seen)
Increment(u, seen) == [u EXCEPT !.requestCount = @ + 1]

\* one outbound attempt at time t: reset an elapsed window, then count it
RecordAttempt(u, t) ==
  LET w == ResetIfElapsed(u, t)
  IN  Increment(w, w.requestCount)

\* GET /config
UpstreamConfig(up) ==
  IF up.fail # NoFailure THEN [ok |-> FALSE, failure |-> up.fail]
  ELSE [ok |-> TRUE, failure |-> NoFailure,
        config |-> [maxCallsPerTimeWindow |-> IF "quota" \in DOMAIN up THEN up.quota ELSE MAX_CALLS,
                    timeWindow |-> TIME_WINDOW]]

\* the upstream problem the handlers' regular expression extracts from the
\* message of a thrown error: its type, or "" when the message carries none
ScbErrorType(failure) == failure.body

\* the status that message carries with the problem, 0 when it carries none
ScbErrorStatus(failure) == IF failure.body # "" THEN failure.status ELSE 0

(***************************************************************************)
(* Tool calls.  A handler is an operator of the call's arguments, of what  *)
(* the upstream does with the request it may issue (up), of the usage      *)
(* window u and of the time t; it yields the usage window afterwards, the  *)
(* upstream requests it issued, the upstream failure it met and the result *)
(* it returns to the caller.                                               *)
(***************************************************************************)
\* the arguments of a call; pageSize is a sequence of no or one number;
\* given: the call has an arguments object (request.params.arguments)
ArgsBase ==
  [tableId |-> AbsentId, selection |-> NoSelection, language |-> Absent, query |-> Absent,
   variableName |-> Absent, pageSize |-> <<>>, category |-> Absent, given |-> TRUE]

\* a call without an arguments object: args is undefined
NoArguments == [ArgsBase EXCEPT !.given = FALSE]

Args(fields) == fields @@ ArgsBase

\* kind: "success", "error" (a JSON document with an error member) or "text"
\* (the plain "Error: ..." text of callTool)
\* error_type: error.type of a structured error, "" when there is none
\* message: whether the error carries a message; carries: the upstream
\* failure that message reports; suggestions: how many suggestions it lists
\* http_status: error.http_status, 0 when it is null or not in the error
\* note_api_failed: the note "API search failed. Matched from local ..."
ResultBase ==
  [kind |-> "success", error_type |-> "", message |-> FALSE, carries |-> NoFailure,
   http_status |-> 0, suggestions |-> 0, language_used |-> Absent, language_warning |-> FALSE,
   note_api_failed |-> FALSE]

Res(fields) == fields @@ ResultBase

LangFields(lv) == [language_used |-> lv.language, language_warning |-> lv.warning]

Req(endpoint, tableId, selection, language) ==
  [endpoint |-> endpoint, tableId |-> tableId, selection |-> selection, language |-> language]

Out(u, reqs, failure, result) ==
  [usage |-> u, reqs |-> reqs, failure |-> failure, result |-> result]

\* createErrorResponse({type, message, details, suggestions})
createErrorResponse(type, carries, suggestions) ==
  Res([kind |-> "error", error_type |-> type, message |-> TRUE, carries |-> carries,
       suggestions |-> suggestions])

\* the catch block of callTool: `Error: ${error.message}`
CallToolCatch(carries) == Res([kind |-> "text", message |-> TRUE, carries |-> carries])

\* error.type of the catch blocks: scbError?.type || fallback
ErrorTypeOr(failure, fallback) ==
  IF ScbErrorType(failure) # "" THEN ScbErrorType(failure) ELSE fallback

\* error.http_status of the catch blocks: scbError?.status || null
HttpStatusOrNull(failure) == ScbErrorStatus(failure)

\* Math.round(100 * a / b), b > 0
RoundPercent(a, b) == (200 * a + b) \div (2 * b)

handleGetApiStatus(args, up, u, t) ==
  LET u1 == RecordAttempt(u, t)
      r == UpstreamConfig(up)
      reqs == <<Req("config", AbsentId, NoSelection, Absent)>>
  IN  IF ~r.ok
      THEN Out(u1, reqs, r.failure, CallToolCatch(r.failure))
      ELSE LET info == [maxCalls |-> r.config.maxCallsPerTimeWindow,
                        timeWindow |-> r.config.timeWindow]
               u2 == [u1 EXCEPT !.rateLimitInfo = info]
           IN  Out(u2, reqs, NoFailure,
                   Res([requests_made |-> u2.requestCount,
                        max_calls |-> info.maxCalls,
                        remaining |-> info.maxCalls - u2.requestCount,
                        suggestions |-> 3]))

(***************************************************************************)
(* scb_search_tables                                                       *)
(***************************************************************************)
MAX_PAGE_SIZE == 100
DEFAULT_PAGE_SIZE == 20

\* the tables the upstream search knows, with the text the category filter reads
Catalogue ==
  << [id |-> "TAB1", text |-> <<"B","e","f","o","l","k","n","i","n","g"," ","e","f","t","e","r"," ","r","e","g","i","o","n">>],
     [id |-> "TAB2", text |-> <<"L","a","b","o","u","r"," ","c","o","s","t"," ","i","n","d","e","x">>],
     [id |-> "TAB3", text |-> <<"H","y","r","o","r"," ","i"," ","b","o","s","t","a","d">>] >>

\* categoryKeywords (two keywords of each list)
categoryKeywords ==
  << [category |-> <<"p","o","p","u","l","a","t","i","o","n">>, keywords |-> <<<<"p","o","p","u","l","a","t","i","o","n">>, <<"b","e","f","o","l","k","n","i","n","g">>>>],
     [category |-> <<"l","a","b","o","u","r">>, keywords |-> <<<<"l","a","b","o","u","r">>, <<"l","a","b","o","r">>>>],
     [category |-> <<"e","c","o","n","o","m","y">>, keywords |-> <<<<"g","d","p">>, <<"b","n","p">>>>],
     [category |-> <<"h","o","u","s","i","n","g">>, keywords |-> <<<<"h","o","u","s","i","n","g">>, <<"b","o","s","t","a","d">>>>],
     [category |-> <<"e","n","v","i","r","o","n","m","e","n","t">>, keywords |-> <<<<"e","n","v","i","r","o","n","m","e","n","t">>, <<"k","l","i","m","a","t">>>>],
     [category |-> <<"e","d","u","c","a","t","i","o","n">>, keywords |-> <<<<"u","t","b","i","l","d","n","i","n","g">>, <<"e","d","u","c","a","t","i","o","n">>>>],
     [category |-> <<"h","e","a","l","t","h">>, keywords |-> <<<<"h","e","a","l","t","h">>, <<"h","e","a","l","t","h","c","a","r","e">>>>] >>

IsValidCategory(c) == \E i \in 1..Len(categoryKeywords) : categoryKeywords[i].category = c

KeywordsOf(c) ==
  categoryKeywords[CHOOSE i \in 1..Len(categoryKeywords) : categoryKeywords[i].category = c].keywords

\* GET /tables: at most pageSize tables
UpstreamSearch(pageSize, up) ==
  IF up.fail # NoFailure THEN [ok |-> FALSE, failure |-> up.fail]
  ELSE [ok |-> TRUE, failure |-> NoFailure,
        tables |-> slice(Catalogue, IF pageSize < 0 THEN 0 ELSE pageSize)]

\* a variant of cappedPageSize without the cap
uncappedPageSize(given) ==
  IF given = <<>> \/ given[1] = 0 THEN DEFAULT_PAGE_SIZE ELSE given[1]

\* let pageSize = args.pageSize || 20; if (pageSize > MAX_PAGE_SIZE) pageSize = MAX_PAGE_SIZE
cappedPageSize(given) ==
  LET p0 == IF given = <<>> \/ given[1] = 0 THEN DEFAULT_PAGE_SIZE ELSE given[1]
  IN  IF p0 > MAX_PAGE_SIZE THEN MAX_PAGE_SIZE ELSE p0

\* a variant of handleSearchTables that validates the category before it searches
handleSearchTablesValidateFirst(args, up, u, t) ==
  LET lv == validateLanguage(args.language)
      pageSize == cappedPageSize(args.pageSize)
      u1 == RecordAttempt(u, t)
      reqs == << [pageSize |-> pageSize] @@ Req("tables", AbsentId, NoSelection, lv.language) >>
      r == UpstreamSearch(pageSize, up)
      hasCategory == ~Falsy(args.category)
      categoryLower == toLowerCase(args.category)
  IN  IF hasCategory /\ ~IsValidCategory(categoryLower)
      THEN Out(u, <<>>, NoFailure,
               [valid_categories |-> Len(categoryKeywords)]
                 @@ createErrorResponse("invalid_category", NoFailure, 3))
      ELSE IF ~r.ok THEN Out(u1, reqs, r.failure, CallToolCatch(r.failure))
      ELSE LET Keep(tb) == \E k \in 1..Len(KeywordsOf(categoryLower)) :
                              includes(toLowerCase(tb.text), KeywordsOf(categoryLower)[k])
               filtered == IF hasCategory THEN SelectSeq(r.tables, Keep) ELSE r.tables
               display == slice(filtered, pageSize)
           IN  Out(u1, reqs, NoFailure,
                   Res([page_size |-> pageSize,
                        tables |-> [i \in 1..Len(display) |-> display[i].id],
                        total_filtered |-> Len(filtered)] @@ LangFields(lv)))

handleSearchTables(args, up, u, t) ==
  LET lv == validateLanguage(args.language)
      pageSize == cappedPageSize(args.pageSize)
      u1 == RecordAttempt(u, t)
      reqs == << [pageSize |-> pageSize] @@ Req("tables", AbsentId, NoSelection, lv.language) >>
      r == UpstreamSearch(pageSize, up)
      hasCategory == ~Falsy(args.category)
      categoryLower == toLowerCase(args.category)
  IN  IF ~r.ok THEN Out(u1, reqs, r.failure, CallToolCatch(r.failure))
      ELSE IF hasCategory /\ ~IsValidCategory(categoryLower)
      THEN Out(u1, reqs, NoFailure,
               [valid_categories |-> Len(categoryKeywords)]
                 @@ createErrorResponse("invalid_category", NoFailure, 3))
      ELSE LET Keep(tb) == \E k \in 1..Len(KeywordsOf(categoryLower)) :
                              includes(toLowerCase(tb.text), KeywordsOf(categoryLower)[k])
               filtered == IF hasCategory THEN SelectSeq(r.tables, Keep) ELSE r.tables
               display == slice(filtered, pageSize)
           IN  Out(u1, reqs, NoFailure,
                   Res([page_size |-> pageSize,
                        tables |-> [i \in 1..Len(display) |-> display[i].id],
                        total_filtered |-> Len(filtered)] @@ LangFields(lv)))

(***************************************************************************)
(* scb_get_table_info, scb_get_table_data, scb_check_usage                 *)
(***************************************************************************)
handleGetTableInfo(args, up, u, t) ==
  LET lv == validateLanguage(args.language)
      u1 == RecordAttempt(u, t)
      reqs == <<Req("metadata", args.tableId, NoSelection, lv.language)>>
      r == UpstreamMetadata(args.tableId, up)
  IN  IF r.ok
      THEN Out(u1, reqs, NoFailure,
               Res([variables |-> [d \in 1..Len(r.metadata.dimension) |->
                                     [code |-> r.metadata.dimension[d].code,
                                      value_count |-> Len(r.metadata.dimension[d].values)]]]
                   @@ LangFields(lv)))
      ELSE Out(u1, reqs, r.failure,
               Res([kind |-> "error", error_type |-> ErrorTypeOr(r.failure, "table_info_failed"),
                    http_status |-> HttpStatusOrNull(r.failure), message |-> TRUE, carries |-> r.failure, suggestions |-> 3]
                   @@ LangFields(lv)))

\* effective_selection: per returned dimension, Object.keys of its category.index
EffectiveSelection(data) ==
  [d \in 1..Len(data.dimension) |->
     [key |-> data.dimension[d].name, values |-> ObjectKeys(data.dimension[d].index)]]

\* selection || {}
SelectionOrEmpty(selection) == IF selection = NoSelection THEN <<>> ELSE selection

\* a variant of handleGetTableData that sends a failed request once more
handleGetTableDataRetry(args, up, u, t) ==
  LET lv == validateLanguage(args.language)
      u1 == RecordAttempt(u, t)
      reqs == <<Req("data", args.tableId, args.selection, lv.language)>>
      r == UpstreamData(args.tableId, args.selection, up)
  IN  IF r.ok
      THEN Out(u1, reqs, NoFailure,
               Res([selection |-> SelectionOrEmpty(args.selection),
                    effective_selection |-> EffectiveSelection(r.data),
                    response |-> r.data.dimension] @@ LangFields(lv)))
      ELSE Out(RecordAttempt(u1, t), reqs \o reqs, r.failure,
               Res([kind |-> "error", error_type |-> ErrorTypeOr(r.failure, "data_fetch_failed"),
                    http_status |-> HttpStatusOrNull(r.failure), message |-> TRUE,
                    carries |-> r.failure, suggestions |-> 4]
                   @@ LangFields(lv)))

handleGetTableData(args, up, u, t) ==
  LET lv == validateLanguage(args.language)
      u1 == RecordAttempt(u, t)
      reqs == <<Req("data", args.tableId, args.selection, lv.language)>>
      r == UpstreamData(args.tableId, args.selection, up)
      \* the catch block, for an error thrown by the fetch or by the transformation
      Caught(failure) ==
        Out(u1, reqs, failure,
            Res([kind |-> "error", error_type |-> ErrorTypeOr(failure, "data_fetch_failed"),
                 http_status |-> HttpStatusOrNull(failure), message |-> TRUE, carries |-> failure,
                 suggestions |-> 4]
                @@ LangFields(lv)))
  IN  IF ~r.ok THEN Caught(r.failure)
      ELSE LET structuredData == transformToStructuredData(r.data)
           IN  IF ~structuredData.ok THEN Caught(structuredData.failure)
               ELSE Out(u1, reqs, NoFailure,
                        Res([records |-> structuredData.records,
                             total_records |-> structuredData.total_records,
                             selection |-> SelectionOrEmpty(args.selection),
                             effective_selection |-> EffectiveSelection(r.data),
                             response |-> r.data.dimension] @@ LangFields(lv)))

\* a variant of handleCheckUsage that reports a fresh window whatever was counted
handleCheckUsageStatic(args, up, u, t) ==
  Out(u, <<>>, NoFailure,
      Res([requests_made |-> 0, max_calls |-> MAX_CALLS, remaining |-> MAX_CALLS,
           time_window_seconds |-> TIME_WINDOW, usage_percent |-> 0, status |-> "ok"]))

handleCheckUsage(args, up, u, t) ==
  LET info == u.rateLimitInfo
      known == info # NoRateLimitInfo
      usagePercent == IF known THEN RoundPercent(u.requestCount, info.maxCalls) ELSE 0
      status == IF usagePercent >= 90 THEN "critical"
                ELSE IF usagePercent >= 70 THEN "warning" ELSE "ok"
  IN  Out(u, <<>>, NoFailure,
          Res([requests_made |-> u.requestCount,
               max_calls |-> IF known THEN info.maxCalls ELSE MAX_CALLS,
               remaining |-> (IF known THEN info.maxCalls ELSE MAX_CALLS) - u.requestCount,
               time_window_seconds |-> IF known THEN info.timeWindow ELSE TIME_WINDOW,
               usage_percent |-> usagePercent,
               status |-> status]))

(***************************************************************************)
(* scb_search_regions, scb_get_table_variables                             *)
(***************************************************************************)
Codes(regions) == [i \in 1..Len(regions) |-> regions[i].code]

\* a variant of handleSearchRegions that asks the upstream before the local store
handleSearchRegionsViaApi(args, up, u, t) ==
  LET lv == validateLanguage(args.language)
      matches == searchRegions(args.query)
      u1 == RecordAttempt(u, t)
      reqs == <<Req("tables", AbsentId, NoSelection, lv.language)>>
  IN  IF Len(matches) = 0
      THEN Out(u1, reqs, NoFailure,
               Res([matches |-> <<>>, message |-> TRUE, tips |-> 4] @@ LangFields(lv)))
      ELSE Out(u1, reqs, NoFailure,
               Res([matches |-> Codes(slice(matches, 20)), total_matches |-> Len(matches),
                    source |-> "local_database", tips |-> 3] @@ LangFields(lv)))

handleSearchRegions(args, up, u, t) ==
  LET lv == validateLanguage(args.language)
      matches == searchRegions(args.query)
  IN  IF Len(matches) = 0
      THEN Out(u, <<>>, NoFailure,
               Res([matches |-> <<>>, message |-> TRUE, tips |-> 4] @@ LangFields(lv)))
      ELSE Out(u, <<>>, NoFailure,
               Res([matches |-> Codes(slice(matches, 20)), total_matches |-> Len(matches),
                    source |-> "local_database", tips |-> 3] @@ LangFields(lv)))

handleGetTableVariables(args, up, u, t) ==
  LET lv == validateLanguage(args.language)
      u1 == RecordAttempt(u, t)
      reqs == <<Req("metadata", args.tableId, NoSelection, lv.language)>>
      r == UpstreamMetadata(args.tableId, up)
  IN  IF ~r.ok
      THEN Out(u1, reqs, r.failure,
               Res([kind |-> "error", error_type |-> "table_variables_failed",
                    message |-> TRUE, carries |-> r.failure, suggestions |-> 3]
                   @@ LangFields(lv)))
      ELSE LET wanted == toLowerCase(args.variableName)
               Keep(dim) == \/ toLowerCase(dim.code) = wanted
                            \/ includes(toLowerCase(dim.label), wanted)
               filtered == IF Falsy(args.variableName) THEN r.metadata.dimension
                           ELSE SelectSeq(r.metadata.dimension, Keep)
           IN  IF Len(filtered) = 0
               THEN Out(u1, reqs, NoFailure, Res([kind |-> "error", message |-> TRUE]))
               ELSE Out(u1, reqs, NoFailure,
                        Res([variables |-> [d \in 1..Len(filtered) |->
                                              [code |-> filtered[d].code,
                                               total_values |-> Len(filtered[d].values)]]]
                            @@ LangFields(lv)))

(***************************************************************************)
(* scb_find_region_code                                                    *)
(***************************************************************************)
\* truthiness of the tableId argument
HasTableId(tableId) == tableId # AbsentId /\ tableId # ""

HasDimension(meta, code) == \E d \in 1..Len(meta.dimension) : meta.dimension[d].code = code

DimensionOf(meta, code) ==
  meta.dimension[CHOOSE d \in 1..Len(meta.dimension) : meta.dimension[d].code = code]

LabelOf(dim, code) == dim.labels[CHOOSE i \in 1..Len(dim.values) : dim.values[i] = code]

\* the codes of the table's Region dimension whose label or code matches,
\* in the order of Object.entries(regionLabels)
TableMatches(dim, query) ==
  LET q == normalizeForSearch(query)
      Hit(code) == \/ includes(normalizeForSearch(LabelOf(dim, code)), q)
                   \/ includes(q, normalizeForSearch(LabelOf(dim, code)))
                   \/ code = query
                   \/ includes(code, query)
  IN  SelectSeq(ObjectKeys(dim.values), Hit)

\* a variant of MatchResult whose primary match is the last of the matches
MatchResultLastPrimary(codes, matchType, fields, lv) ==
  Res([matches |-> codes, match_type |-> matchType, primary_match |-> codes[Len(codes)]]
      @@ fields @@ LangFields(lv))

\* a result that lists matches; primary_match is results[0]; fields: the
\* members that only some of these results have
MatchResult(codes, matchType, fields, lv) ==
  Res([matches |-> codes, match_type |-> matchType, primary_match |-> codes[1]]
      @@ fields @@ LangFields(lv))

\* source: 'local_database'
FromLocalDatabase == [source |-> "local_database"]

\* "No regions found matching ..."
NoRegionsFound(lv) ==
  Res([kind |-> "error", message |-> TRUE, matches |-> <<>>, tips |-> 4] @@ LangFields(lv))

\* a variant of handleFindRegionCode that fetches the table metadata on every call
handleFindRegionCodeAlwaysAsk(args, up, u, t) ==
  LET lv == validateLanguage(args.language)
      localMatches == searchRegions(args.query)
      u1 == RecordAttempt(u, t)
      reqs == <<Req("metadata", args.tableId, NoSelection, lv.language)>>
      r == UpstreamMetadata(args.tableId, up)
  IN  IF r.ok /\ Len(localMatches) > 0
      THEN Out(u1, reqs, NoFailure,
               MatchResult(Codes(slice(localMatches, 10)), "exact_matches",
                           [total_matches |-> Len(localMatches)] @@ FromLocalDatabase, lv))
      ELSE Out(u1, reqs, r.failure, NoRegionsFound(lv))

\* a variant of handleFindRegionCode without the local answer when a table id is given
handleFindRegionCodeNoFallback(args, up, u, t) ==
  LET lv == validateLanguage(args.language)
      localMatches == searchRegions(args.query)
  IN  IF HasTableId(args.tableId)
      THEN Out(RecordAttempt(u, t), <<Req("metadata", args.tableId, NoSelection, lv.language)>>,
               UpstreamMetadata(args.tableId, up).failure, NoRegionsFound(lv))
      ELSE IF Len(localMatches) > 0
      THEN Out(u, <<>>, NoFailure,
               MatchResult(Codes(slice(localMatches, 10)), "exact_matches",
                           [total_matches |-> Len(localMatches)] @@ FromLocalDatabase, lv))
      ELSE Out(u, <<>>, NoFailure, NoRegionsFound(lv))

handleFindRegionCode(args, up, u, t) ==
  LET lv == validateLanguage(args.language)
      localMatches == searchRegions(args.query)
      u1 == RecordAttempt(u, t)
      reqs == <<Req("metadata", args.tableId, NoSelection, lv.language)>>
      r == UpstreamMetadata(args.tableId, up)
  IN  IF Len(localMatches) > 0 /\ ~HasTableId(args.tableId)
      THEN Out(u, <<>>, NoFailure,
               MatchResult(Codes(slice(localMatches, 10)), "exact_matches",
                           [total_matches |-> Len(localMatches)] @@ FromLocalDatabase, lv))
      ELSE IF ~HasTableId(args.tableId)
      THEN Out(u, <<>>, NoFailure, NoRegionsFound(lv))
      ELSE IF ~r.ok
      THEN \* catch: fall back to the local matches, if any
           IF Len(localMatches) > 0
           THEN Out(u1, reqs, r.failure,
                    [note_api_failed |-> TRUE] @@
                      MatchResult(Codes(slice(localMatches, 10)), "fallback_matches",
                                  FromLocalDatabase, lv))
           ELSE Out(u1, reqs, r.failure, NoRegionsFound(lv))
      ELSE IF ~HasDimension(r.metadata, DimRegion)
      THEN IF Len(localMatches) > 0
           THEN Out(u1, reqs, NoFailure,
                    MatchResult(Codes(slice(localMatches, 10)), "local_fallback",
                                FromLocalDatabase, lv))
           ELSE Out(u1, reqs, NoFailure,
                    Res([kind |-> "error", message |-> TRUE, suggestions |-> 1]
                        @@ LangFields(lv)))
      ELSE LET tableMatches == TableMatches(DimensionOf(r.metadata, DimRegion), args.query)
           IN  IF Len(tableMatches) > 0
               THEN Out(u1, reqs, NoFailure,
                        MatchResult(slice(tableMatches, 10), "table_specific_matches",
                                    [total_matches |-> Len(tableMatches),
                                     source_table |-> args.tableId], lv))
               ELSE IF Len(localMatches) > 0
               THEN Out(u1, reqs, NoFailure,
                        MatchResult(Codes(slice(localMatches, 5)), "local_suggestions",
                                    [source_table |-> args.tableId] @@ FromLocalDatabase, lv))
               ELSE Out(u1, reqs, NoFailure, NoRegionsFound(lv))

(***************************************************************************)
(* scb_test_selection, scb_preview_data                                    *)
(***************************************************************************)
\* a token the table's dimension accepts: *, TOP(n), BOTTOM(n) or one of its codes
TokenKnown(dim, tok) ==
  tok = Star \/ IsTop(tok) \/ IsBottom(tok) \/ \E i \in 1..Len(dim.values) : dim.values[i] = tok

\* the error of one entry of the selection, "" when it has none
EntryError(meta, entry) ==
  IF ~HasDimension(meta, entry.key) THEN "unknown_dimension"
  ELSE IF \E j \in 1..Len(entry.values) : ~TokenKnown(DimensionOf(meta, entry.key), entry.values[j])
       THEN "unknown_value"
       ELSE ""

\* apiClient.validateSelection: the errors, one per offending dimension
ValidationErrors(meta, selection) ==
  LET Bad(entry) == EntryError(meta, entry) # ""
      bad == SelectSeq(selection, Bad)
  IN  [i \in 1..Len(bad) |-> [type |-> EntryError(meta, bad[i]), dimension |-> bad[i].key]]

\* a variant of isEmptySelection that takes only a missing selection as empty
isEmptySelectionMissingOnly(selection) == selection = NoSelection

\* !selection || typeof selection !== 'object' || Object.keys(selection).length === 0
isEmptySelection(selection) == selection = NoSelection \/ Len(selection) = 0

\* a variant of handleTestSelection that reports the selection valid once the table is found
handleTestSelectionUnchecked(args, up, u, t) ==
  LET lv == validateLanguage(args.language)
      u1 == RecordAttempt(u, t)
      reqs == <<Req("metadata", args.tableId, NoSelection, lv.language)>>
      r == UpstreamMetadata(args.tableId, up)
  IN  IF r.ok
      THEN Out(u1, reqs, NoFailure,
               Res([is_valid |-> TRUE, selection_provided |-> ~isEmptySelection(args.selection),
                    errors |-> <<>>, tips |-> 2] @@ LangFields(lv)))
      ELSE Out(u1, reqs, r.failure, createErrorResponse("table_not_found", r.failure, 2))

handleTestSelection(args, up, u, t) ==
  LET lv == validateLanguage(args.language)
      u1 == RecordAttempt(u, t)
      reqs == <<Req("metadata", args.tableId, NoSelection, lv.language)>>
      r == UpstreamMetadata(args.tableId, up)
  IN  IF isEmptySelection(args.selection)
      THEN IF r.ok
           THEN Out(u1, reqs, NoFailure,
                    Res([is_valid |-> TRUE, selection_provided |-> FALSE, errors |-> <<>>,
                         tips |-> 2] @@ LangFields(lv)))
           ELSE Out(u1, reqs, r.failure, createErrorResponse("table_not_found", r.failure, 2))
      ELSE IF r.ok
           THEN LET errors == ValidationErrors(r.metadata, args.selection)
                IN  Out(u1, reqs, NoFailure,
                        Res([is_valid |-> errors = <<>>, selection |-> args.selection,
                             errors |-> errors,
                             suggestions |-> IF errors = <<>> THEN 0 ELSE 1] @@ LangFields(lv)))
           ELSE Out(u1, reqs, r.failure,
                    Res([kind |-> "error", error_type |-> "selection_validation_failed",
                         message |-> TRUE, carries |-> r.failure, suggestions |-> 3]
                        @@ LangFields(lv)))

handlePreviewData(args, up, u, t) ==
  LET lv == validateLanguage(args.language)
      previewSelection == previewClamp(args.selection)
      u1 == RecordAttempt(u, t)
      reqs == <<Req("data", args.tableId, previewSelection, lv.language)>>
      r == UpstreamData(args.tableId, previewSelection, up)
      \* the catch block, for an error thrown by the fetch or by the transformation
      Caught(failure) ==
        Out(u1, reqs, failure,
            Res([kind |-> "error", error_type |-> "preview_failed",
                 message |-> TRUE, carries |-> failure, suggestions |-> 3]
                @@ LangFields(lv)))
  IN  IF ~r.ok THEN Caught(r.failure)
      ELSE LET structuredData == transformToStructuredData(r.data)
           IN  IF ~structuredData.ok THEN Caught(structuredData.failure)
               ELSE Out(u1, reqs, NoFailure,
                        Res([records |-> structuredData.records,
                             total_records |-> structuredData.total_records,
                             selection |-> SelectionOrEmpty(args.selection),
                             effective_selection |-> EffectiveSelection(r.data),
                             response |-> r.data.dimension,
                             is_preview |-> TRUE,
                             preview_selection |-> previewSelection] @@ LangFields(lv)))

(***************************************************************************)
(* callTool                                                                *)
(***************************************************************************)
ToolNames ==
  {"scb_get_api_status", "scb_search_tables", "scb_get_table_info", "scb_get_table_data",
   "scb_check_usage", "scb_search_regions", "scb_get_table_variables",
   "scb_find_region_code", "scb_test_selection", "scb_preview_data"}

\* annotations.openWorldHint of the tools of getTools
openWorldHint(name) == name \notin {"scb_check_usage", "scb_search_regions", "scb_find_region_code"}

\* a tool name callTool does not know (the removed folder browser)
UnknownTool == "scb_browse_folders"

\* a variant of callTool that still serves the folder browser from /navigation
callToolWithBrowse(name, args, up, u, t) ==
  CASE name = "scb_get_api_status" -> handleGetApiStatus(args, up, u, t)
    [] name = "scb_search_tables" -> handleSearchTables(args, up, u, t)
    [] name = "scb_get_table_info" -> handleGetTableInfo(args, up, u, t)
    [] name = "scb_get_table_data" -> handleGetTableData(args, up, u, t)
    [] name = "scb_check_usage" -> handleCheckUsage(args, up, u, t)
    [] name = "scb_search_regions" -> handleSearchRegions(args, up, u, t)
    [] name = "scb_get_table_variables" -> handleGetTableVariables(args, up, u, t)
    [] name = "scb_find_region_code" -> handleFindRegionCode(args, up, u, t)
    [] name = "scb_test_selection" -> handleTestSelection(args, up, u, t)
    [] name = "scb_preview_data" -> handlePreviewData(args, up, u, t)
    [] name = "scb_browse_folders" ->
         Out(RecordAttempt(u, t), <<Req("navigation", AbsentId, NoSelection, Absent)>>,
             NotFound, CallToolCatch(NotFound))
    [] OTHER -> Out(u, <<>>, NoFailure, CallToolCatch(NoFailure))

\* the handlers that read their arguments (all but handleGetApiStatus and
\* handleCheckUsage): their first statement reads a property of args
ReadsArguments(name) == name \in ToolNames \ {"scb_get_api_status", "scb_check_usage"}

\* a variant of callTool without its catch block: what is thrown leaves callTool
callToolNoCatch(name, args, up, u, t) ==
  LET out ==
        IF ReadsArguments(name) /\ ~args.given
        THEN Out(u, <<>>, NoFailure, CallToolCatch(NoFailure))
        ELSE CASE name = "scb_get_api_status" -> handleGetApiStatus(args, up, u, t)
               [] name = "scb_search_tables" -> handleSearchTables(args, up, u, t)
               [] name = "scb_get_table_info" -> handleGetTableInfo(args, up, u, t)
               [] name = "scb_get_table_data" -> handleGetTableData(args, up, u, t)
               [] name = "scb_check_usage" -> handleCheckUsage(args, up, u, t)
               [] name = "scb_search_regions" -> handleSearchRegions(args, up, u, t)
               [] name = "scb_get_table_variables" -> handleGetTableVariables(args, up, u, t)
               [] name = "scb_find_region_code" -> handleFindRegionCode(args, up, u, t)
               [] name = "scb_test_selection" -> handleTestSelection(args, up, u, t)
               [] name = "scb_preview_data" -> handlePreviewData(args, up, u, t)
               [] OTHER -> Out(u, <<>>, NoFailure, CallToolCatch(NoFailure))
  IN  IF out.result.kind = "text"
      THEN [out EXCEPT !.result = [kind |-> "thrown"] @@ @]
      ELSE out

\* a TypeError (args is undefined), an error a handler lets through and the
\* error of the default case all end in the catch block
callTool(name, args, up, u, t) ==
  IF ReadsArguments(name) /\ ~args.given
  THEN Out(u, <<>>, NoFailure, CallToolCatch(NoFailure))
  ELSE CASE name = "scb_get_api_status" -> handleGetApiStatus(args, up, u, t)
         [] name = "scb_search_tables" -> handleSearchTables(args, up, u, t)
         [] name = "scb_get_table_info" -> handleGetTableInfo(args, up, u, t)
         [] name = "scb_get_table_data" -> handleGetTableData(args, up, u, t)
         [] name = "scb_check_usage" -> handleCheckUsage(args, up, u, t)
         [] name = "scb_search_regions" -> handleSearchRegions(args, up, u, t)
         [] name = "scb_get_table_variables" -> handleGetTableVariables(args, up, u, t)
         [] name = "scb_find_region_code" -> handleFindRegionCode(args, up, u, t)
         [] name = "scb_test_selection" -> handleTestSelection(args, up, u, t)
         [] name = "scb_preview_data" -> handlePreviewData(args, up, u, t)
         [] OTHER -> Out(u, <<>>, NoFailure, CallToolCatch(NoFailure))

(***************************************************************************)
(* The state machine.  A caller sends one tool call at a time; callTool     *)
(* runs it to completion and the result travels back to the caller.  last  *)
(* is the call whose result is on its way: the tool, its arguments, the    *)
(* upstream requests it issued, the upstream failure it met and the result *)
(* returned; Idle when the caller holds no pending call.                   *)
(***************************************************************************)
Languages == {Absent, <<>>, <<"s","v">>, <<"E","N">>, <<"f","r">>}
TableIds == {"TAB1", "TAB2", "NOPE"}
Queries == {<<"G","o","t","e","b","o","r","g">>, <<" ","r","i","k","e","t">>, <<"1","4">>, <<"x","y","z">>}
VariableNames == {Absent, <<"T","I","D">>, <<"z","z","z">>}
PageSizes == {<<>>, <<1>>, <<100>>, <<101>>}
Categories == {Absent, <<>>, <<"P","o","p","u","l","a","t","i","o","n">>, <<"h","o","u","s","i","n","g">>, <<"b","o","g","u","s">>}
TickSteps == {5, 11}

Sel1(key, values) == << [key |-> key, values |-> values] >>

Selections ==
  { NoSelection,
    <<>>,
    Sel1(DimTid, <<Top("5")>>),
    Sel1(DimTid, <<Star>>),
    Sel1(DimTid, <<Year("5"), Year("4"), Year("3"), Year("2")>>),
    Sel1(DimTid, <<Star, Year("5"), Year("4"), Year("3")>>),
    Sel1(DimTid, <<<<"1","9","9","9">>>>),
    Sel1(<<"F","o","o">>, <<Star>>),
    << [key |-> DimRegion, values |-> <<Code1480>>],
       [key |-> DimTid, values |-> <<Bottom("2")>>] >> }

Idle ==
  [tool |-> "none", args |-> ArgsBase, reqs |-> <<>>, failure |-> NoFailure,
   result |-> ResultBase, shape |-> "ok"]

\* an upstream that is not asked anything
NoUpstream == [fail |-> NoFailure, desc |-> FALSE]

\* History of outbound attempts: n attempts have been made, the first of them
\* at time first, and each of them within TIME_WINDOW of that first one.
NoAttempts == [first |-> 0, n |-> 0]

\* the history after one more attempt at time t
Attempted(a, t) ==
  IF a.n > 0 /\ t - a.first <= TIME_WINDOW
  THEN [a EXCEPT !.n = @ + 1]
  ELSE [first |-> t, n |-> 1]

RECURSIVE AttemptedTimes(_, _, _)
AttemptedTimes(a, t, k) == IF k = 0 THEN a ELSE AttemptedTimes(Attempted(a, t), t, k - 1)

\* No request under way.  pending: the requests dispatched and not yet
\* counted, each with the count it read (seen) and the window it was
\* dispatched in (epoch).  History of the current window: dispatched requests,
\* increments made (counted), increments made by requests of an earlier
\* window (carried).
NoOverlap == [pending |-> <<>>, dispatched |-> 0, counted |-> 0, carried |-> 0]

Init ==
  /\ usage = InitialUsage
  /\ now = 0
  /\ last = Idle
  /\ attempts = NoAttempts
  /\ overlap = NoOverlap

\* one call of callTool, start to finish (enabled when last = Idle)
InvokeWithin(name, args, up, max) ==
  /\ \E out \in {callTool(name, args, up, usage, now)} :
       /\ out.usage.requestCount <= max
       /\ usage' = out.usage
       /\ last' = [tool |-> name, args |-> args, reqs |-> out.reqs, failure |-> out.failure,
                   result |-> out.result,
                   shape |-> IF "shape" \in DOMAIN up THEN up.shape ELSE "ok"]
       /\ attempts' = AttemptedTimes(attempts, now, Len(out.reqs))
  /\ UNCHANGED <<now, overlap>>

Invoke(name, args, up) == InvokeWithin(name, args, up, MaxRequests)

GetApiStatusOf(oracles) ==
  /\ last = Idle
  /\ \E up \in oracles : Invoke("scb_get_api_status", ArgsBase, up)

GetApiStatus == GetApiStatusOf(Oracles)

SearchTables ==
  /\ last = Idle
  /\ \E language \in Languages, pageSize \in PageSizes, category \in Categories, up \in Oracles :
    Invoke("scb_search_tables",
           Args([language |-> language, pageSize |-> pageSize, category |-> category]), up)

GetTableInfo ==
  /\ last = Idle
  /\ \E tableId \in TableIds, language \in Languages, up \in Oracles :
    Invoke("scb_get_table_info", Args([tableId |-> tableId, language |-> language]), up)

GetTableDataFrom(tableIds, selections, languages, oracles) ==
  /\ last = Idle
  /\ \E tableId \in tableIds, selection \in selections, language \in languages, up \in oracles :
    Invoke("scb_get_table_data",
           Args([tableId |-> tableId, selection |-> selection, language |-> language]), up)

GetTableDataOf(tableIds, selections, languages) ==
  GetTableDataFrom(tableIds, selections, languages, Oracles)

GetTableData == GetTableDataOf(TableIds, Selections, Languages)

CheckUsage ==
  /\ last = Idle
  /\ Invoke("scb_check_usage", ArgsBase, NoUpstream)


SearchRegionsOf(queries, languages) ==
  /\ last = Idle
  /\ \E query \in queries, language \in languages :
    Invoke("scb_search_regions", Args([query |-> query, language |-> language]), NoUpstream)

SearchRegions == SearchRegionsOf(Queries, Languages)

GetTableVariables ==
  /\ last = Idle
  /\ \E tableId \in TableIds, variableName \in VariableNames, language \in Languages,
     up \in Oracles :
    Invoke("scb_get_table_variables",
           Args([tableId |-> tableId, variableName |-> variableName, language |-> language]), up)

FindRegionCodeOf(queries, tableIds, languages) ==
  /\ last = Idle
  /\ \E query \in queries, tableId \in tableIds, language \in languages, up \in Oracles :
    Invoke("scb_find_region_code",
           Args([query |-> query, tableId |-> tableId, language |-> language]), up)

FindRegionCode == FindRegionCodeOf(Queries, TableIds \cup {AbsentId, ""}, Languages)

TestSelectionOf(tableIds, selections, languages) ==
  /\ last = Idle
  /\ \E tableId \in tableIds, selection \in selections, language \in languages, up \in Oracles :
    Invoke("scb_test_selection",
           Args([tableId |-> tableId, selection |-> selection, language |-> language]), up)

TestSelection == TestSelectionOf(TableIds, Selections, Languages)

PreviewDataFrom(tableIds, selections, languages, oracles) ==
  /\ last = Idle
  /\ \E tableId \in tableIds, selection \in selections, language \in languages, up \in oracles :
    Invoke("scb_preview_data",
           Args([tableId |-> tableId, selection |-> selection, language |-> language]), up)

PreviewDataOf(tableIds, selections, languages) ==
  PreviewDataFrom(tableIds, selections, languages, Oracles)

PreviewData == PreviewDataOf(TableIds, Selections, Languages)

UnknownToolCall ==
  /\ last = Idle
  /\ Invoke(UnknownTool, ArgsBase, NoUpstream)

\* the caller receives the result
Deliver ==
  /\ last # Idle
  /\ last' = Idle
  /\ UNCHANGED <<usage, now, attempts, overlap>>

\* time passes between calls
TickOf(steps) ==
  /\ last = Idle
  /\ \E d \in steps : now + d <= MaxTime /\ now' = now + d
  /\ UNCHANGED <<usage, last, attempts, overlap>>

Tick == TickOf(TickSteps)

Next ==
  \/ GetApiStatus
  \/ SearchTables
  \/ GetTableInfo
  \/ GetTableData
  \/ CheckUsage
  \/ SearchRegions
  \/ GetTableVariables
  \/ FindRegionCode
  \/ TestSelection
  \/ PreviewData
  \/ UnknownToolCall
  \/ Deliver
  \/ Tick

Spec == Init /\ [][Next]_vars

(***************************************************************************)
(* The selection handlers on every token list up to MaxTokens tokens.      *)
(***************************************************************************)
Tokens == {Star, Top("5"), Bottom("2"), Year("5")}

TokenLists == UNION {[1..n -> Tokens] : n \in 1..MaxTokens}

TokenSelections == {NoSelection} \cup {Sel1(DimTid, l) : l \in TokenLists}

GetTableDataSel == GetTableDataOf({"TAB1"}, TokenSelections, {Absent})

TestSelectionSel == TestSelectionOf({"TAB1"}, TokenSelections, {Absent})

PreviewDataSel == PreviewDataOf({"TAB1"}, TokenSelections, {Absent})

NextSel ==
  \/ GetTableDataSel
  \/ TestSelectionSel
  \/ PreviewDataSel
  \/ Deliver

SpecSel == Init /\ [][NextSel]_vars

(***************************************************************************)
(* The usage window: calls that attempt a request and calls that do not,   *)
(* on a finer clock, against an upstream that may announce a small quota.  *)
(***************************************************************************)
UsageTickSteps == {5, 6}

\* an upstream whose configuration announces SmallQuota calls per window
SmallQuotaUpstream == [fail |-> NoFailure, desc |-> FALSE, quota |-> SmallQuota]

GetApiStatusUsage == GetApiStatusOf(Oracles \cup {SmallQuotaUpstream})

GetTableDataUsage == GetTableDataOf({"TAB1"}, {NoSelection}, {Absent})

TestSelectionUsage == TestSelectionOf({"TAB1"}, {NoSelection, Sel1(DimTid, <<Star>>)}, {Absent})

PreviewDataUsage == PreviewDataOf({"NOPE"}, {NoSelection}, {Absent})

FindRegionCodeUsage ==
  FindRegionCodeOf({<<"1","4">>, <<"x","y","z">>}, {AbsentId, "TAB1"}, {Absent})

TickUsage == TickOf(UsageTickSteps)

NextUsage ==
  \/ GetApiStatusUsage
  \/ CheckUsage
  \/ GetTableDataUsage
  \/ TestSelectionUsage
  \/ PreviewDataUsage
  \/ FindRegionCodeUsage
  \/ UnknownToolCall
  \/ Deliver
  \/ TickUsage

SpecUsage == Init /\ [][NextUsage]_vars

(***************************************************************************)
(* Requests that overlap in time.  A request is dispatched (the window is  *)
(* reset if it has elapsed, the request is sent) and counted in a later    *)
(* step, so that the requests of concurrent calls interleave.              *)
(***************************************************************************)
RemoveAt(xs, i) == SubSeq(xs, 1, i - 1) \o SubSeq(xs, i + 1, Len(xs))

Dispatch ==
  /\ Len(overlap.pending) < MaxOverlap
  /\ usage.requestCount + Len(overlap.pending) < MaxRequests
  /\ \E w \in {ResetIfElapsed(usage, now)} :
       /\ usage' = w
       /\ overlap' =
            IF w.windowStart # usage.windowStart
            THEN [pending |-> Append(overlap.pending, [seen |-> w.requestCount, epoch |-> w.windowStart]),
                  dispatched |-> 1, counted |-> 0, carried |-> 0]
            ELSE [overlap EXCEPT
                    !.pending = Append(@, [seen |-> w.requestCount, epoch |-> w.windowStart]),
                    !.dispatched = @ + 1]
  /\ UNCHANGED <<now, last, attempts>>

Count ==
  /\ \E i \in 1..Len(overlap.pending) :
       /\ usage' = Increment(usage, overlap.pending[i].seen)
       /\ overlap' = [overlap EXCEPT
                        !.pending = RemoveAt(@, i),
                        !.counted = @ + 1,
                        !.carried = IF overlap.pending[i].epoch = usage.windowStart THEN @ ELSE @ + 1]
  /\ UNCHANGED <<now, last, attempts>>

NextOverlap ==
  \/ Dispatch
  \/ Count
  \/ TickUsage

SpecOverlap == Init /\ [][NextOverlap]_vars

(***************************************************************************)
(* Region lookups by name: every region of the store is asked for by its   *)
(* name without diacritics, as written, in lower and in upper case, bare   *)
(* and between spaces.                                                     *)
(***************************************************************************)
\* String.prototype.toUpperCase
toUpperCase(s) ==
  [i \in 1..Len(s) |->
     IF \E k \in 1..Len(LowerChars) : LowerChars[k] = s[i]
     THEN UpperChars[CHOOSE k \in 1..Len(LowerChars) : LowerChars[k] = s[i]]
     ELSE s[i]]

\* the letter without its diacritic, in the case it has
PlainChar(c) ==
  IF c \in {"å", "ä"} THEN "a" ELSE IF c \in {"Å", "Ä"} THEN "A"
  ELSE IF c = "ö" THEN "o" ELSE IF c = "Ö" THEN "O"
  ELSE IF c = "é" THEN "e" ELSE IF c = "É" THEN "E"
  ELSE IF c = "ü" THEN "u" ELSE IF c = "Ü" THEN "U"
  ELSE c

Plain(s) == [i \in 1..Len(s) |-> PlainChar(s[i])]

\* the ways of writing a name without its diacritics
PlainSpellings(name) ==
  LET cased == {Plain(name), Plain(toLowerCase(name)), Plain(toUpperCase(name))}
  IN  cased \cup {<<" ">> \o q \o <<" ", " ">> : q \in cased}

NameQueries == UNION {PlainSpellings(ALL_REGIONS[i].name) : i \in 1..Len(ALL_REGIONS)}

SearchRegionsByName == SearchRegionsOf(NameQueries, Languages)

FindRegionCodeByName == FindRegionCodeOf(NameQueries, {AbsentId, "TAB1", "TAB2"}, {Absent})

NextRegions ==
  \/ SearchRegionsByName
  \/ FindRegionCodeByName
  \/ Deliver

SpecRegions == Init /\ [][NextRegions]_vars

(***************************************************************************)
(* Data calls against an upstream whose payload may break the declared     *)
(* sizes.                                                                  *)
(***************************************************************************)
\* the upstream answers with a value array that is too short or too long
ShortPayload == [fail |-> NoFailure, desc |-> FALSE, shape |-> "short"]
LongPayload == [fail |-> NoFailure, desc |-> FALSE, shape |-> "long"]

DataOracles == Oracles \cup {ShortPayload, LongPayload}

GetTableDataDecode == GetTableDataFrom(TableIds, Selections, {Absent}, DataOracles)

PreviewDataDecode == PreviewDataFrom(TableIds, Selections, {Absent}, DataOracles)

NextDecode ==
  \/ GetTableDataDecode
  \/ PreviewDataDecode
  \/ Deliver
  \/ Tick

SpecDecode == Init /\ [][NextDecode]_vars

(***************************************************************************)
(* Validation of selections that name both dimensions of TAB1, each with   *)
(* one or two tokens, among them codes the dimension does not have.        *)
(***************************************************************************)
Code9999 == <<"9","9","9","9">>
Year1999 == <<"1","9","9","9">>

OneOrTwo(tokens) == UNION {[1..n -> tokens] : n \in 1..2}

CodeSelections ==
  { << [key |-> DimRegion, values |-> rv], [key |-> DimTid, values |-> tv] >> :
      rv \in OneOrTwo({Code1480, Code9999}), tv \in OneOrTwo({Year("5"), Year1999, Star}) }

TestSelectionCodes == TestSelectionOf({"TAB1"}, CodeSelections, {Absent})

NextValidate ==
  \/ TestSelectionCodes
  \/ Deliver

SpecValidate == Init /\ [][NextValidate]_vars

(***************************************************************************)
(* Calls that end in the catch block of callTool: a call of any name       *)
(* without an arguments object, an unknown name, and the handlers that let *)
(* an upstream failure through.                                            *)
(***************************************************************************)
CallWithoutArguments ==
  /\ last = Idle
  /\ \E name \in ToolNames \cup {UnknownTool}, up \in Oracles : Invoke(name, NoArguments, up)

NextAnyCall ==
  \/ CallWithoutArguments
  \/ GetApiStatus
  \/ SearchTables
  \/ GetTableInfo
  \/ UnknownToolCall
  \/ Deliver
  \/ Tick

SpecAnyCall == Init /\ [][NextAnyCall]_vars

(***************************************************************************)
(* A burst of requests inside one window, with and without the quota the   *)
(* upstream announces, and usage reports in between.                       *)
(***************************************************************************)
BurstRequest ==
  /\ last = Idle
  /\ InvokeWithin("scb_get_table_info", Args([tableId |-> "TAB1"]), NoUpstream, MaxBurst)

BurstGetApiStatus ==
  /\ last = Idle
  /\ \E up \in Oracles : InvokeWithin("scb_get_api_status", ArgsBase, up, MaxBurst)

BurstCheckUsage ==
  /\ last = Idle
  /\ InvokeWithin("scb_check_usage", ArgsBase, NoUpstream, MaxBurst)

NextBurst ==
  \/ BurstRequest
  \/ BurstGetApiStatus
  \/ BurstCheckUsage
  \/ Deliver
  \/ Tick

SpecBurst == Init /\ [][NextBurst]_vars

(***************************************************************************)
(* Properties.                                                             *)
(***************************************************************************)
IsPreviewCall == last.tool = "scb_preview_data" /\ last.args.selection # NoSelection

\* the selection scb_preview_data forwarded to the upstream
ForwardedSelection == last.reqs[1].selection

\* C1: after previewClamp every dimension's token list has at most 3
\* entries, also when it mixes *, TOP(n) or BOTTOM(n) with literal codes.
C1_AtMostThreeTokens ==
  IsPreviewCall =>
    \A i \in 1..Len(ForwardedSelection) : Len(ForwardedSelection[i].values) <= 3

\* C2: previewClamp never increases the number of tokens of a dimension, its
\* output contains no bare *, and every TOP(n)/BOTTOM(n) token of the input
\* is still there, unchanged and at its place.
C2_ClampShrinksAndKeepsBounded ==
  IsPreviewCall =>
    /\ Len(ForwardedSelection) = Len(last.args.selection)
    /\ \A i \in 1..Len(ForwardedSelection) :
         LET in == last.args.selection[i].values
             out == ForwardedSelection[i].values
         IN  /\ Len(out) <= Len(in)
             /\ \A j \in 1..Len(out) : out[j] # Star
             /\ \A j \in 1..Len(in) :
                  (IsTop(in[j]) \/ IsBottom(in[j])) => (j <= Len(out) /\ out[j] = in[j])

C2_Witness ==
  /\ IsPreviewCall
  /\ \E i \in 1..Len(last.args.selection) :
       LET in == last.args.selection[i].values
       IN  /\ \E j \in 1..Len(in) : in[j] = Star
           /\ \E j \in 1..Len(in) : IsTop(in[j])
           /\ \E j \in 1..Len(in) : IsBottom(in[j])
  /\ \E i \in 1..Len(last.args.selection) : ForwardedSelection[i].values # last.args.selection[i].values

IsDataCall == last.tool \in {"scb_get_table_data", "scb_preview_data"}

\* C3: after a successful scb_get_table_data or scb_preview_data,
\* effective_selection holds, per dimension of the upstream response, exactly
\* the codes of that dimension's index in the order the upstream returned
\* them (so it is a function of the response alone).
C3_EffectiveSelectionInUpstreamOrder ==
  (IsDataCall /\ last.result.kind = "success") =>
    /\ Len(last.result.effective_selection) = Len(last.result.response)
    /\ \A d \in 1..Len(last.result.response) :
         /\ last.result.effective_selection[d].key = last.result.response[d].name
         /\ last.result.effective_selection[d].values = last.result.response[d].index

\* position of a code in the natural (oldest first) order of a dimension
PositionIn(dim, code) == CHOOSE i \in 1..Len(dim.values) : dim.values[i] = code

IsTop5Call ==
  /\ last.tool = "scb_get_table_data"
  /\ last.args.selection = Sel1(DimTid, <<Top("5")>>)
  /\ last.result.kind = "success"

\* C4: scb_get_table_data with selection {"Tid": ["TOP(5)"]} on a valid table
\* reports exactly 5 distinct time codes in effective_selection.Tid, most
\* recent first.
C4_Top5MostRecentFirst ==
  IsTop5Call =>
    LET tid == ValuesOf(last.result.effective_selection, DimTid)
        dim == DimensionOf(Metadata(last.args.tableId), DimTid)
    IN  /\ Len(tid) = 5
        /\ \A i, j \in 1..Len(tid) : i < j => PositionIn(dim, tid[i]) > PositionIn(dim, tid[j])

LanguageTools == ToolNames \ {"scb_get_api_status", "scb_check_usage"}

\* C5: an absent language yields sv without a warning; sv or en in any letter
\* case yields that code without a warning; any other value yields sv and a
\* warning attached to the response, and the upstream requests are those of
\* a call made with sv.
C5_LanguageResolved ==
  last.tool \in LanguageTools =>
    LET given == last.args.language
        r == last.result
        known == given # Absent /\ toLowerCase(given) \in {<<"s","v">>, <<"e","n">>}
        code == IF known THEN toLowerCase(given) ELSE DEFAULT_LANGUAGE
    IN  /\ r.language_warning = (given # Absent /\ ~known)
        /\ \A i \in 1..Len(last.reqs) : last.reqs[i].language = code

IsEmptySelectionTest ==
  /\ last.tool = "scb_test_selection"
  /\ last.args.selection \in {NoSelection, <<>>}
  /\ last.failure = NoFailure

\* C6: scb_test_selection with an absent or empty selection, when the
\* metadata fetch succeeds, reports is_valid true with selection_provided
\* false and no error; the only upstream request is the metadata fetch, which
\* carries no selection.
C6_EmptySelectionIsValid ==
  IsEmptySelectionTest =>
    LET r == last.result
    IN  /\ r.kind = "success"
        /\ r.is_valid = TRUE
        /\ "selection_provided" \in DOMAIN r
        /\ r.selection_provided = FALSE
        /\ r.errors = <<>>
        /\ Len(last.reqs) = 1
        /\ last.reqs[1].endpoint = "metadata"
        /\ last.reqs[1].selection = NoSelection

C6_Witness == IsEmptySelectionTest /\ last.args.selection = <<>>

IsFindRegionReturn == last = Idle /\ last'.tool = "scb_find_region_code"

\* C7: scb_find_region_code without a table id issues no upstream request and
\* leaves the usage window unchanged, whether or not a region matches; when it
\* does issue a request, a table id was supplied and the request is the
\* metadata fetch of that table.
C7_NoTableIdNoRequest ==
  [][IsFindRegionReturn =>
       /\ ~HasTableId(last'.args.tableId) => (usage' = usage /\ last'.reqs = <<>>)
       /\ last'.reqs # <<>> =>
            /\ HasTableId(last'.args.tableId)
            /\ Len(last'.reqs) = 1
            /\ last'.reqs[1].endpoint = "metadata"
            /\ last'.reqs[1].tableId = last'.args.tableId]_vars

C7_Witness ==
  /\ last.tool = "scb_find_region_code"
  /\ last.args.tableId = AbsentId
  /\ last.result.matches = <<>>
  /\ usage.requestCount > 0

IsFailedTableLookup ==
  /\ last.tool = "scb_find_region_code"
  /\ HasTableId(last.args.tableId)
  /\ last.failure # NoFailure

\* C8: when scb_find_region_code is given a table id, the metadata fetch fails
\* and the local store matches the query, the result is those local matches,
\* tagged as a fallback from the local database, not an error.
C8_FallbackToLocalMatches ==
  (IsFailedTableLookup /\ searchRegions(last.args.query) # <<>>) =>
    /\ last.result.kind = "success"
    /\ last.result.matches = Codes(slice(searchRegions(last.args.query), 10))
    /\ last.result.match_type = "fallback_matches"
    /\ last.result.source = "local_database"

C8_Witness == IsFailedTableLookup /\ searchRegions(last.args.query) # <<>>

\* C9: no upstream failure is swallowed: the result of a call that met one
\* is an error that reports it (or, at the least, a result that says the
\* API failed).
C9_NoFailureSwallowed ==
  last.failure # NoFailure =>
    \/ last.result.kind \in {"error", "text"} /\ last.result.carries = last.failure
    \/ last.result.note_api_failed

StructuredErrorTools ==
  {"scb_search_tables", "scb_get_api_status", "scb_get_table_info", "scb_get_table_data",
   "scb_test_selection", "scb_preview_data"}

\* C10: an upstream failure in scb_search_tables, scb_get_api_status,
\* scb_get_table_info, scb_get_table_data, scb_test_selection or
\* scb_preview_data, and an unknown tool name, yield a structured error with a
\* type, a message and at least one suggestion.
C10_FailuresAreStructured ==
  ((last.tool \in StructuredErrorTools /\ last.failure # NoFailure) \/ last.tool = UnknownTool) =>
    /\ last.result.kind = "error"
    /\ last.result.error_type # ""
    /\ last.result.message
    /\ last.result.suggestions >= 1

ClassifiedTools == {"scb_get_table_data", "scb_get_table_info", "scb_test_selection"}

\* the result of the same call when the upstream fails with g instead
ResultUnder(g) ==
  callTool(last.tool, last.args, [fail |-> g, desc |-> FALSE], InitialUsage, 0).result

\* C11: the class of an upstream failure is preserved in the error of
\* scb_get_table_data, scb_get_table_info and scb_test_selection: a failure of
\* another class, met by the same call, yields another error type or status.
C11_FailureClassPreserved ==
  (last.tool \in ClassifiedTools /\ last.failure # NoFailure) =>
    \A g \in TransientFailures :
      g.class # last.failure.class =>
        <<ResultUnder(g).error_type, ResultUnder(g).http_status>>
          # <<last.result.error_type, last.result.http_status>>

\* C12: after N outbound attempts, all of them within the time window of the
\* first, requestCount is N.
C12_CountEqualsAttempts ==
  attempts.n >= 1 => usage.requestCount = attempts.n

\* a step in which a call makes an outbound attempt
IsAttempt == last = Idle /\ last'.reqs # <<>>

WindowElapsed == now - usage.windowStart > TIME_WINDOW

\* C13: an attempt made after the time window has elapsed since windowStart
\* resets the window (afterwards requestCount is 1 and windowStart is the
\* time of that attempt); an attempt made before that never resets it.
C13_ResetExactlyWhenElapsed ==
  [][IsAttempt =>
       IF WindowElapsed
       THEN usage'.requestCount = 1 /\ usage'.windowStart = now
       ELSE usage'.windowStart = usage.windowStart
              /\ usage'.requestCount = usage.requestCount + 1]_vars

C13_Witness ==
  /\ last.reqs # <<>>
  /\ usage.windowStart = now
  /\ now > TIME_WINDOW
  /\ usage.requestCount = 1

\* the local window is exhausted: the announced quota has been used up
Exhausted(u) == u.rateLimitInfo # NoRateLimitInfo /\ u.requestCount >= u.rateLimitInfo.maxCalls

\* the requests the call would issue on a fresh window
RequestsOnFreshWindow(call) ==
  callTool(call.tool, call.args, NoUpstream, InitialUsage, 0).reqs

C16_UsageReportIsLiveAndPure ==
  [][(last = Idle /\ last'.tool = "scb_check_usage") =>
       /\ last'.result.requests_made = usage.requestCount
       /\ last'.reqs = <<>>
       /\ usage' = usage]_vars

C16_Witness ==
  /\ last.tool = "scb_check_usage"
  /\ last.result.requests_made >= 2
  /\ usage.requestCount = last.result.requests_made

\* C15: with requests overlapping in time, in every interleaving requestCount
\* is the number of increments made in the window (none is lost); once all the
\* requests under way are counted it is the number of requests dispatched in
\* the window plus those carried over a reset, so never below the attempts
\* made since the reset.
C15_NoLostIncrement ==
  /\ usage.requestCount = overlap.counted
  /\ overlap.pending = <<>> =>
       /\ usage.requestCount = overlap.dispatched + overlap.carried
       /\ usage.requestCount >= overlap.dispatched

\* two requests that were under way together have both been counted
C15_Witness ==
  /\ overlap.pending = <<>>
  /\ overlap.dispatched >= 2
  /\ overlap.carried >= 1
  /\ usage.windowStart > 0

Endpoints == {"config", "tables", "metadata", "data"}

\* C17: a call of the removed folder browser fails with an error, issues no
\* upstream request and leaves the usage window unchanged; no call of any
\* tool issues a request to an endpoint other than config, tables, metadata
\* and data.
C17_NoNavigationRequest ==
  [][/\ (last = Idle /\ last'.tool = UnknownTool) =>
          /\ last'.result.kind # "success"
          /\ last'.result.message
          /\ last'.reqs = <<>>
          /\ usage' = usage
     /\ \A i \in 1..Len(last'.reqs) : last'.reqs[i].endpoint \in Endpoints]_vars

C17_Witness ==
  /\ last.tool = UnknownTool
  /\ last.result.kind = "text"
  /\ usage.requestCount >= 1

\* C18: one invocation issues no request twice; when its request fails it
\* issues nothing more and returns (an error or a local fallback).
C18_NoAutomaticRetry ==
  /\ \A i, j \in 1..Len(last.reqs) : i # j => last.reqs[i] # last.reqs[j]
  /\ last.failure # NoFailure => Len(last.reqs) = 1

C18_Witness ==
  /\ last.tool = "scb_get_table_data"
  /\ last.failure = ServerFault
  /\ last.result.kind = "error"
  /\ Len(last.reqs) = 1

IsSearch == last.tool = "scb_search_tables"

\* C19: the page size scb_search_tables forwards and reports and the number
\* of tables it returns never exceed 100; a requested page size from 1 to 100
\* is used as it is and an absent one becomes 20.
C19_PageSizeCapped ==
  IsSearch =>
    LET given == last.args.pageSize
        forwarded == last.reqs[1].pageSize
    IN  /\ forwarded <= 100
        /\ given = <<>> => forwarded = 20
        /\ (given # <<>> /\ given[1] \in 1..100) => forwarded = given[1]
        /\ last.result.kind = "success" =>
             /\ last.result.page_size = forwarded
             /\ Len(last.result.tables) <= forwarded

C19_Witness ==
  /\ IsSearch
  /\ last.args.pageSize = <<101>>
  /\ last.result.kind = "success"
  /\ last.result.page_size = 100

\* C20: scb_search_tables called with a category that is not one of the seven
\* category names, compared without regard to case, returns an
\* invalid_category error that lists the valid categories and returns no
\* table; a valid category never yields that error.
C20_InvalidCategoryRejected ==
  (IsSearch /\ last.args.category # Absent) =>
    IF IsValidCategory(toLowerCase(last.args.category))
    THEN last.result.error_type # "invalid_category"
    ELSE /\ last.result.kind = "error"
         /\ last.result.error_type = "invalid_category"
         /\ "valid_categories" \in DOMAIN last.result
         /\ last.result.valid_categories = 7
         /\ "tables" \notin DOMAIN last.result

\* the regions a name query was written for
AskedFor(query) ==
  {i \in 1..Len(ALL_REGIONS) : query \in PlainSpellings(ALL_REGIONS[i].name)}

IsRegionSearch == last = Idle /\ last'.tool = "scb_search_regions"

\* the answer to the same query on a server that has served nothing yet
FirstAnswer(query) ==
  callTool("scb_search_regions", Args([query |-> query]), NoUpstream, InitialUsage, 0).result

\* C22: scb_search_regions issues no upstream request and changes neither the
\* usage window nor the clock; whatever was served before, its matches are
\* those a fresh server returns for the query, in the same order; a query
\* without a match yields an empty match list in a result that is no error.
C22_RegionSearchReadOnly ==
  [][IsRegionSearch =>
       /\ last'.reqs = <<>>
       /\ usage' = usage /\ now' = now
       /\ last'.result.matches = FirstAnswer(last'.args.query).matches
       /\ last'.result.kind = "success"
       /\ last'.result.error_type = ""]_vars

C22_Witness ==
  /\ last.tool = "scb_search_regions"
  /\ last.args.query = <<"x","y","z">>
  /\ last.result.matches = <<>>
  /\ usage.requestCount >= 2
  /\ now > TIME_WINDOW

\* C23: a call of a tool whose openWorldHint is false (scb_check_usage,
\* scb_search_regions, scb_find_region_code) issues no upstream request,
\* whatever its arguments.
C23_LocalToolsIssueNoRequest ==
  (last.tool \in ToolNames /\ ~openWorldHint(last.tool)) => last.reqs = <<>>

\* the upstream answered the data request of the call with a value array
\* whose length is not the product of the sizes
PayloadMalformed ==
  /\ IsDataCall
  /\ last.shape # "ok"
  /\ UpstreamData(last.reqs[1].tableId, last.reqs[1].selection,
                  [fail |-> NoFailure, desc |-> FALSE]).ok
  /\ last.failure \notin TransientFailures

\* C24: a data call that succeeds returns exactly product(size) records, and
\* only for a well-formed payload; a payload whose value array has another
\* length yields an error of type decode_error and no record list.
C24_OneRecordPerCell ==
  IsDataCall =>
    /\ last.result.kind = "success" =>
         /\ ~PayloadMalformed
         /\ "records" \in DOMAIN last.result
         /\ Len(last.result.records)
              = Product([d \in 1..Len(last.result.response) |-> Len(last.result.response[d].index)])
    /\ PayloadMalformed =>
         /\ last.result.kind = "error"
         /\ last.result.error_type = "decode_error"
         /\ "records" \notin DOMAIN last.result

\* a literal value code: a token that is neither * nor a TOP( or BOTTOM( expression
IsLiteral(tok) == ~IsSpecialToken(tok)

\* the entries of the selection that hold a literal code their dimension of
\* the table does not have
Offending(tableId, selection) ==
  {i \in 1..Len(selection) :
     \E d \in 1..Len(Metadata(tableId).dimension) :
       /\ Metadata(tableId).dimension[d].code = selection[i].key
       /\ \E j \in 1..Len(selection[i].values) :
            /\ IsLiteral(selection[i].values[j])
            /\ \A k \in 1..Len(Metadata(tableId).dimension[d].values) :
                 Metadata(tableId).dimension[d].values[k] # selection[i].values[j]}

IsValidation ==
  /\ last.tool = "scb_test_selection"
  /\ last.failure = NoFailure
  /\ last.args.tableId \in ValidTables
  /\ ~isEmptySelection(last.args.selection)

\* C25: when the selection holds a literal value code absent from its
\* dimension, scb_test_selection reports it invalid, with exactly one
\* unknown_value error for each offending dimension and none for the others.
C25_OneUnknownValuePerDimension ==
  (IsValidation /\ Offending(last.args.tableId, last.args.selection) # {}) =>
    /\ last.result.is_valid = FALSE
    /\ \A i \in 1..Len(last.args.selection) :
         Cardinality({e \in 1..Len(last.result.errors) :
                        /\ last.result.errors[e].type = "unknown_value"
                        /\ last.result.errors[e].dimension = last.args.selection[i].key})
           = IF i \in Offending(last.args.tableId, last.args.selection) THEN 1 ELSE 0

\* both dimensions offend, one of them with two unknown codes
C25_Witness ==
  /\ IsValidation
  /\ last.args.selection = << [key |-> DimRegion, values |-> <<Code9999, Code9999>>],
                              [key |-> DimTid, values |-> <<Star, Year1999>>] >>
  /\ Len(last.result.errors) = 2

IsFindRegion == last.tool = "scb_find_region_code"

\* the tags of the strategies
StrategyTags ==
  {"exact_matches", "table_specific_matches", "local_suggestions", "local_fallback",
   "fallback_matches"}

\* the result lists these codes under this tag
Lists(codes, tag) ==
  /\ "match_type" \in DOMAIN last.result
  /\ last.result.match_type = tag
  /\ last.result.matches = codes

\* the result lists no match
ListsNothing == "matches" \in DOMAIN last.result => last.result.matches = <<>>

\* C26: scb_find_region_code answers from the first strategy that finds a
\* match: without a table id the local store; with one, the table's Region
\* labels, then the local matches (a suggestion when the table has none, a
\* fallback when the table has no Region dimension or cannot be fetched),
\* then nothing.  Every result that lists a match carries the tag of its
\* strategy, and its primary_match is the first of its matches.
C26_FirstStrategyWins ==
  IsFindRegion =>
    LET q == last.args.query
        tid == last.args.tableId
        local == searchRegions(q)
        hasRegion == tid \in ValidTables /\ HasDimension(Metadata(tid), DimRegion)
        inTable == IF hasRegion THEN TableMatches(DimensionOf(Metadata(tid), DimRegion), q)
                   ELSE <<>>
    IN  /\ IF ~HasTableId(tid)
           THEN IF local # <<>> THEN Lists(Codes(slice(local, 10)), "exact_matches")
                ELSE ListsNothing
           ELSE IF last.failure # NoFailure
           THEN IF local # <<>> THEN Lists(Codes(slice(local, 10)), "fallback_matches")
                ELSE ListsNothing
           ELSE IF inTable # <<>> THEN Lists(slice(inTable, 10), "table_specific_matches")
           ELSE IF local # <<>>
           THEN IF hasRegion THEN Lists(Codes(slice(local, 5)), "local_suggestions")
                ELSE Lists(Codes(slice(local, 10)), "local_fallback")
           ELSE ListsNothing
        /\ ("matches" \in DOMAIN last.result /\ last.result.matches # <<>>) =>
             /\ last.result.match_type \in StrategyTags
             /\ last.result.primary_match = last.result.matches[1]

\* the table's labels and the local store both match; several codes are listed
C26_Witness ==
  /\ IsFindRegion
  /\ last.args.tableId = "TAB1"
  /\ searchRegions(last.args.query) # <<>>
  /\ last.result.kind = "success"
  /\ last.result.match_type = "table_specific_matches"
  /\ usage.requestCount >= 1

\* a step that answers scb_search_tables called with a category that is not
\* one of the category names
IsInvalidCategorySearch ==
  /\ last = Idle
  /\ last'.tool = "scb_search_tables"
  /\ ~Falsy(last'.args.category)
  /\ ~IsValidCategory(toLowerCase(last'.args.category))

IsPreview == last.tool = "scb_preview_data"

\* the dimension codes of a selection, in its order
KeysOf(selection) == [i \in 1..Len(selection) |-> selection[i].key]

\* C28: the selection scb_preview_data forwards is a fixed point of
\* previewClamp and has exactly the dimension codes of the caller's
\* selection; an absent selection is forwarded absent.
C28_ClampIdempotent ==
  IsPreview =>
    IF last.args.selection = NoSelection
    THEN ForwardedSelection = NoSelection
    ELSE /\ ForwardedSelection # NoSelection
         /\ previewClamp(ForwardedSelection) = ForwardedSelection
         /\ KeysOf(ForwardedSelection) = KeysOf(last.args.selection)

C28_Witness ==
  /\ IsPreview
  /\ last.args.selection = Sel1(DimTid, <<Year("5"), Star, Bottom("2"), Star>>)
  /\ ForwardedSelection = Sel1(DimTid, <<Year("5"), TOP3, Bottom("2"), TOP3>>)
  /\ previewClamp(ForwardedSelection) = ForwardedSelection

\* C29: every call of callTool returns a result, whatever the name and the
\* arguments: a JSON document or a text.  An unknown name and a call whose
\* handler cannot read its arguments return a text with the error message
\* and issue no request; an upstream failure that scb_get_api_status or
\* scb_search_tables lets through returns a text that reports it.
C29_CallToolNeverThrows ==
  last # Idle =>
    /\ last.result.kind \in {"success", "error", "text"}
    /\ (last.tool \notin ToolNames \/ (ReadsArguments(last.tool) /\ ~last.args.given)) =>
         /\ last.result.kind = "text"
         /\ last.result.message
         /\ last.reqs = <<>>
    /\ (last.tool \in {"scb_get_api_status", "scb_search_tables"} /\ last.failure # NoFailure) =>
         /\ last.result.kind = "text"
         /\ last.result.message
         /\ last.result.carries = last.failure

C29_Witness ==
  /\ last.tool = "scb_preview_data"
  /\ ~last.args.given
  /\ last.result.kind = "text"
  /\ usage.requestCount >= 1

\* C30: in every usage report the status agrees with the reported counts:
\* "critical" when requests_made is at least 90% of the reported max_calls,
\* "warning" when it is at least 70% and below 90%, "ok" otherwise, whether
\* or not the quota of the upstream has been fetched.
C30_StatusMatchesCounts ==
  (last.tool = "scb_check_usage" /\ last.result.kind = "success") =>
    LET n == last.result.requests_made
        m == last.result.max_calls
    IN  last.result.status = IF 10 * n >= 9 * m THEN "critical"
                             ELSE IF 10 * n >= 7 * m THEN "warning" ELSE "ok"

====
